---- MODULE Spec2Model ----
(***************************************************************************)
(* A model of the saf_tracker module (saf_tracker.c): tracker3d_create and *)
(* tracker3d_step, the particle ensemble SS/SS_resamp, the particle        *)
(* weights and the published MAP target list.                              *)
(*                                                                         *)
(* Numbers.  Weights are exact rationals <<num, den>> in lowest terms;     *)
(* <<0, 0>> stands for a NaN and <<1, 0>> for +inf, the values IEEE float  *)
(* division gives for 0/0 and 1/0.  Angles are degrees; 1 - cos(angle) is  *)
(* tabulated in halves; R is kept in quarters and Q and the covariances P  *)
(* in twelfths, so that all model matrices are integer matrices.           *)
(*                                                                         *)
(* Control.  pc is the position of the single caller thread: "start"       *)
(* (no tracker yet), "idle" (between calls), the positions inside          *)
(* tracker3d_step, and "aborted" (a failed assert) or "crashed" (a wild    *)
(* memory access).  The asserts are compiled in (no NDEBUG): a failed      *)
(* assert ends the process.  tracker3d_destroy may be called by a second   *)
(* thread at any time, with a NULL handle before the tracker exists, and   *)
(* once more after it has returned.  The caller keeps its output pointers  *)
(* from one tracker3d_step call to the next and frees nothing itself.      *)
(***************************************************************************)
EXTENDS Integers, Sequences, FiniteSets, TLC

(* ------------------------------ bounds -------------------------------- *)
NpValid == 9        \* the particle count of the configurations that run
MaxCalls == 2       \* tracker3d_step calls per behaviour
MaxUpdates == 2     \* observations processed per behaviour

\* the hard maximum of Np (scaled down)
TRACKER3D_MAX_NUM_PARTICLES == 12
\* FLT_MIN is 1/FltMinDen: positive and below every weight a run can produce
\* (the C value is 2^-126)
FltMinDen == 1000000

NULL == <<>>

(* ------------------------- rational arithmetic ------------------------ *)
RECURSIVE GCD(_, _)
GCD(a, b) == IF b = 0 THEN a ELSE GCD(b, a % b)

Rat(n, d) == LET g == GCD(n, d) IN IF g = 0 THEN <<0, 0>> ELSE <<n \div g, d \div g>>

NaN == <<0, 0>>
Inf == <<1, 0>>
IsNaN(r) == r[1] = 0 /\ r[2] = 0
IsFinite(r) == r[2] > 0

RAdd(a, b) ==
    IF IsNaN(a) \/ IsNaN(b) THEN NaN
    ELSE IF a[2] = 0 THEN a
    ELSE IF b[2] = 0 THEN b
    ELSE Rat(a[1] * b[2] + b[1] * a[2], a[2] * b[2])

RMul(a, b) ==
    IF IsNaN(a) \/ IsNaN(b) THEN NaN
    ELSE IF (a[2] = 0 /\ b[1] = 0) \/ (b[2] = 0 /\ a[1] = 0) THEN NaN
    ELSE IF a[2] = 0 \/ b[2] = 0 THEN Inf
    ELSE Rat(a[1] * b[1], a[2] * b[2])

RDiv(a, b) ==
    IF IsNaN(a) \/ IsNaN(b) THEN NaN
    ELSE IF a[2] = 0 /\ b[2] = 0 THEN NaN
    ELSE IF a[2] = 0 THEN Inf
    ELSE IF b[2] = 0 THEN <<0, 1>>
    ELSE IF b[1] = 0 THEN (IF a[1] = 0 THEN NaN ELSE Inf)
    ELSE Rat(a[1] * b[2], a[2] * b[1])

\* a < b as C compares floats: false as soon as one side is a NaN
RLess(a, b) ==
    IF IsNaN(a) \/ IsNaN(b) THEN FALSE
    ELSE IF a[2] = 0 THEN FALSE
    ELSE IF b[2] = 0 THEN TRUE
    ELSE a[1] * b[2] < b[1] * a[2]

RECURSIVE RSum(_)
RSum(seq) == IF seq = <<>> THEN <<0, 1>> ELSE RAdd(Head(seq), RSum(Tail(seq)))

FLT_MIN == <<1, FltMinDen>>

(* ------------------------------ matrices ------------------------------ *)
Eye(n) == [i \in 1..n |-> [j \in 1..n |-> IF i = j THEN 1 ELSE 0]]
RECURSIVE SumTo(_, _)
SumTo(f, n) == IF n = 0 THEN 0 ELSE f[n] + SumTo(f, n - 1)
MatMul(X, Y) ==
    [i \in 1..Len(X) |-> [j \in 1..Len(Y[1]) |->
        SumTo([k \in 1..Len(Y) |-> X[i][k] * Y[k][j]], Len(Y))]]
MatT(X) == [j \in 1..Len(X[1]) |-> [i \in 1..Len(X) |-> X[i][j]]]
MatAdd(X, Y) == [i \in 1..Len(X) |-> [j \in 1..Len(X[1]) |-> X[i][j] + Y[i][j]]]
MatScale(c, X) == [i \in 1..Len(X) |-> [j \in 1..Len(X[1]) |-> c * X[i][j]]]
MatVec(X, v) == [i \in 1..Len(X) |-> SumTo([k \in 1..Len(v) |-> X[i][k] * v[k]], Len(v))]

(* ------------------- configuration and model builder ------------------ *)
\* tracker3d_config; MULTI_ACTIVE is the C int flag
ValidConfig ==
    [Np |-> NpValid, measNoiseSD_deg |-> 60, noiseSpecDen_deg |-> 60,
     dt |-> 1, MULTI_ACTIVE |-> 0]

NoConfig ==
    [Np |-> 0, measNoiseSD_deg |-> 0, noiseSpecDen_deg |-> 0, dt |-> 0, MULTI_ACTIVE |-> 0]

\* the configurations a caller passes to tracker3d_create: the valid one, one
\* with too many particles, one with the multi-active flag, and two
\* single-particle ones with dt = 0 and with negative noise parameters
Configs ==
    { ValidConfig,
      [ValidConfig EXCEPT !.Np = TRACKER3D_MAX_NUM_PARTICLES + 1],
      [ValidConfig EXCEPT !.MULTI_ACTIVE = 1],
      [ValidConfig EXCEPT !.Np = 1, !.dt = 0],
      [ValidConfig EXCEPT !.Np = 1, !.measNoiseSD_deg = -60, !.noiseSpecDen_deg = -60] }

\* 1.0f - cosf(deg*SAF_PI/180.0f), in halves, for the angles of Configs
OneMinusCos(deg) ==
    CASE deg = 0 -> 0
      [] deg = 60 \/ deg = -60 -> 1
      [] deg = 90 \/ deg = -90 -> 2

\* R (3x3, quarters): sd_xyz^2 on the diagonal
MeasNoiseR(measNoiseSD_deg) ==
    LET sd_xyz == OneMinusCos(measNoiseSD_deg)
    IN  [i \in 1..3 |-> [j \in 1..3 |-> IF i = j THEN sd_xyz * sd_xyz ELSE 0]]

\* F (6x6): the velocity drives the position
F == [i \in 1..6 |-> [j \in 1..6 |-> IF j = i + 3 THEN 1 ELSE 0]]

\* Qc (6x6, halves): q_xyz on the three velocity components
ProcNoiseQc(noiseSpecDen_deg) ==
    LET q_xyz == OneMinusCos(noiseSpecDen_deg)
    IN  [i \in 1..6 |-> [j \in 1..6 |-> IF i = j /\ i > 3 THEN q_xyz ELSE 0]]

\* lti_disc: A = expm(F dt) = I + F dt (F F = 0);
\* Q = Qc dt + (F Qc + Qc F') dt^2/2 + F Qc F' dt^3/3, here times 6 (Qc in
\* halves gives Q in twelfths)
lti_disc(Fm, Qc, dt) ==
    [A |-> MatAdd(Eye(6), MatScale(dt, Fm)),
     Q |-> MatAdd(MatScale(6 * dt, Qc),
           MatAdd(MatScale(3 * dt * dt, MatAdd(MatMul(Fm, Qc), MatMul(Qc, MatT(Fm)))),
                  MatScale(2 * dt * dt * dt, MatMul(MatMul(Fm, Qc), MatT(Fm)))))]

\* H (3x6): selects the position components
MeasModelH == [i \in 1..3 |-> [j \in 1..6 |-> IF i = j THEN 1 ELSE 0]]

\* mutant: the baseline weight of one particle too many
BaselineW0_OffByOne(Np) == Rat(1, Np + 1)

\* pData->W0 = 1.0f/(float)tpars.Np
BaselineW0(Np) == Rat(1, Np)

\* tracker3d_particleCreate: a newly allocated particle with weight W0 and no
\* targets.  mem is the identity of the allocation that holds the particle
\* and its target list (targetIDs, M, P): two records with the same mem are
\* one object reached through two pointers
tracker3d_particleCreate(mem, W0v, dt) ==
    [mem |-> mem, W |-> W0v, W0 |-> W0v, nTargets |-> 0, dt |-> dt,
     targetIDs |-> <<>>, M |-> <<>>, P |-> <<>>]

\* the Np slots of SS (off = 1) and of SS_resamp (off = 0) that the loop of
\* tracker3d_create fills in turn: allocations 1, 2, 3, ... in program order
CreateParticles(Np, W0v, dt, off) ==
    [i \in 1..Np |-> tracker3d_particleCreate(2 * i - off, W0v, dt)]

(* ------------------------------ state --------------------------------- *)
VARIABLES
    pc,             \* position of the caller thread
    failedAssert,   \* the assert that aborted the process, or "none"
    cfg,            \* the tpars argument of tracker3d_create
    hT3d,           \* the caller's handle: NULL or "pData"
    pDataMem,       \* the tracker3d_data block and its particles: "none",
                    \* "allocated" or "freed"
    tpars, R, A, Q, H, W0,      \* tracker3d_data
    SS, SS_resamp, incrementTime,
    newObs_xyz, nObs,           \* arguments of the running tracker3d_step
    ob, kt, Neff, s, maxIdx,    \* its locals
    target_xyz, target_IDs, nTargets,   \* the caller's output variables
    nCalls, nUpdates,           \* calls made, observations processed
    SS_call,                    \* SS at the entry of the last tracker3d_step
    emptyRun,                   \* consecutive empty-batch steps before the last one
    leaked,                     \* output buffers that nothing refers to any more
    events                      \* what the last tracker3d_step has done so far

pDataVars == <<tpars, R, A, Q, H, W0, SS, SS_resamp, incrementTime>>
argVars == <<newObs_xyz, nObs>>
localVars == <<ob, kt, Neff, s, maxIdx>>
outVars == <<target_xyz, target_IDs, nTargets>>
trackerVars == <<pc, failedAssert, cfg, hT3d, pDataMem, pDataVars, argVars, localVars,
                 outVars, nCalls, nUpdates, SS_call, emptyRun, leaked, events>>

(* --------------------------- state of dirass -------------------------- *)
\* DIRASS_CODEC_STATUS and the PROC_STATUS enum
CODEC_STATUS_INITIALISED == 0
CODEC_STATUS_NOT_INITIALISED == 1
CODEC_STATUS_INITIALISING == 2
PROC_STATUS_ONGOING == 0
PROC_STATUS_NOT_ONGOING == 1

\* the values of the user parameters that the setters are called with
INPUT_ORDER_FIRST == 1
INPUT_ORDER_SECOND == 2
UPSCALE_ORDER_NINTH == 9
UPSCALE_ORDER_TENTH == 10
GRID_GEOSPHERE_8 == 9
GRID_GEOSPHERE_9 == 10
CH_ACN == 1
CH_FUMA == 2
NORM_N3D == 1
NORM_SN3D == 2
NORM_FUMA == 3

NUM_DISP_SLOTS == 2

InputOrders == {INPUT_ORDER_FIRST, INPUT_ORDER_SECOND}
UpscaleOrders == {UPSCALE_ORDER_NINTH, UPSCALE_ORDER_TENTH}
GridOptions == {GRID_GEOSPHERE_8, GRID_GEOSPHERE_9}
ChOrders == {CH_ACN, CH_FUMA}
NormTypes == {NORM_N3D, NORM_SN3D, NORM_FUMA}

\* dirass_create does not assign dispSlotIdx: until dirass_init runs it holds
\* whatever malloc1d returned, a valid slot index or not
UninitSlotIdx == {0, NUM_DISP_SLOTS}

VARIABLES
    codecStatus, procStatus,            \* dirass_data
    pmapReady, recalcPmap, dispSlotIdx,
    new_inputOrder, new_upscaleOrder, gridOption, chOrdering, norm,
    anaPc,                              \* audio thread
    ctlPc,                              \* control thread
    outWritten,                         \* dirass_getPmap has assigned its output parameters
    ret,                                \* the getter's return value, -1 before it returns
    hDir,                               \* the caller's handle: "NULL" or "pData"
    dirassMem,                          \* dirass_data and its buffers: "none",
                                        \* "allocated" or "freed"
    dstPc                               \* thread that calls dirass_destroy

statusVars == <<codecStatus, procStatus>>
pmapVars == <<pmapReady, recalcPmap, dispSlotIdx>>
userVars == <<new_inputOrder, new_upscaleOrder, gridOption, chOrdering, norm>>
getVars == <<outWritten, ret>>
destroyVars == <<hDir, dirassMem, dstPc>>
dirassVars == <<statusVars, pmapVars, userVars, anaPc, ctlPc, getVars, destroyVars>>

vars == <<trackerVars, dirassVars>>

\* no dirass instance
NoDirass ==
    /\ codecStatus = CODEC_STATUS_NOT_INITIALISED
    /\ procStatus = PROC_STATUS_NOT_ONGOING
    /\ pmapReady = 0 /\ recalcPmap = 0 /\ dispSlotIdx = 0
    /\ new_inputOrder = 0 /\ new_upscaleOrder = 0 /\ gridOption = 0
    /\ chOrdering = 0 /\ norm = 0
    /\ anaPc = "none" /\ ctlPc = "none"
    /\ outWritten = FALSE /\ ret = -1
    /\ hDir = "NULL" /\ dirassMem = "none" /\ dstPc = "none"

\* no tracker yet
NoTracker ==
    /\ pc = "start"

    /\ failedAssert = "none"
    /\ cfg = NoConfig
    /\ hT3d = "NULL"
    /\ pDataMem = "none"
    /\ tpars = NoConfig
    /\ R = <<>> /\ A = <<>> /\ Q = <<>> /\ H = <<>>
    /\ W0 = <<0, 1>>
    /\ SS = <<>> /\ SS_resamp = <<>>
    /\ incrementTime = 0
    /\ newObs_xyz = <<>> /\ nObs = 0
    /\ ob = 0 /\ kt = 0 /\ Neff = <<0, 1>> /\ s = <<>> /\ maxIdx = -1
    /\ target_xyz = NULL /\ target_IDs = NULL /\ nTargets = 0
    /\ nCalls = 0 /\ nUpdates = 0
    /\ SS_call = <<>>
    /\ emptyRun = 0
    /\ leaked = 0
    /\ events = <<>>

Init == NoTracker /\ NoDirass

(* --------------------------- tracker3d_create ------------------------- *)
\* assert(tpars.Np<=TRACKER3D_MAX_NUM_PARTICLES) fails: the handle already
\* points to the allocated, unfilled tracker3d_data
CreateAbortNp(tp) ==
    /\ tp.Np > TRACKER3D_MAX_NUM_PARTICLES
    /\ pc' = "aborted"
    /\ failedAssert' = "Np<=TRACKER3D_MAX_NUM_PARTICLES"
    /\ UNCHANGED <<pDataVars>>

\* everything up to line 91: configuration stored, models built, particles
\* created
CreateBuild(tp) ==
    LET d == lti_disc(F, ProcNoiseQc(tp.noiseSpecDen_deg), tp.dt)
        w == BaselineW0(tp.Np)
    IN  /\ tpars' = tp
        /\ R' = MeasNoiseR(tp.measNoiseSD_deg)
        /\ A' = d.A
        /\ Q' = d.Q
        /\ H' = MeasModelH
        /\ W0' = w
        /\ SS' = CreateParticles(tp.Np, w, tp.dt, 1)
        /\ SS_resamp' = CreateParticles(tp.Np, w, tp.dt, 0)

\* assert(0) in the MULTI_ACTIVE branch, after the particles were created
CreateAbortMulti(tp) ==
    /\ tp.Np <= TRACKER3D_MAX_NUM_PARTICLES
    /\ tp.MULTI_ACTIVE # 0
    /\ CreateBuild(tp)
    /\ pc' = "aborted"
    /\ failedAssert' = "MULTI_ACTIVE"
    /\ UNCHANGED incrementTime

CreateOk(tp) ==
    /\ tp.Np <= TRACKER3D_MAX_NUM_PARTICLES
    /\ tp.MULTI_ACTIVE = 0
    /\ CreateBuild(tp)
    /\ incrementTime' = 0
    /\ pc' = "idle"
    /\ UNCHANGED failedAssert

tracker3d_create ==
    /\ pc = "start"
    /\ \E tp \in Configs :
        /\ cfg' = tp
        /\ hT3d' = "pData"
        /\ pDataMem' = "allocated"
        /\ (CreateAbortNp(tp) \/ CreateAbortMulti(tp) \/ CreateOk(tp))
    /\ UNCHANGED <<argVars, localVars, outVars, nCalls, nUpdates, SS_call, emptyRun, leaked, events>>
    /\ UNCHANGED dirassVars

(* ------------------- predict, update, resampling helpers -------------- *)
\* the observations of a batch: 3-D unit vectors
Obs == { <<1, 0, 0>>, <<0, 1, 0>> }

\* likelihoods of the association hypotheses (relative units)
LikNear == 2
LikBirth == 1
LikClutter == 1

\* prior covariance of a new target (twelfths): position and velocity
\* variance 1, uncorrelated.  A covariance is kept as the 2x2 block
\* [pp pv; pv vv] that every axis shares (F, Qc, H and R treat the axes alike).
P0 == [pp |-> 12, pv |-> 0, vv |-> 12]

Trace(c) == 3 * (c.pp + c.vv)

\* P' = A P A' + Q on the block of one axis
PredictCov(c, Am, Qm) ==
    LET a11 == Am[1][1]  a14 == Am[1][4]  a41 == Am[4][1]  a44 == Am[4][4]
    IN  [pp |-> a11 * a11 * c.pp + 2 * a11 * a14 * c.pv + a14 * a14 * c.vv + Qm[1][1],
         pv |-> a11 * a41 * c.pp + (a11 * a44 + a14 * a41) * c.pv + a14 * a44 * c.vv
                + Qm[1][4],
         vv |-> a41 * a41 * c.pp + 2 * a41 * a44 * c.pv + a44 * a44 * c.vv + Qm[4][4]]

\* tracker3d_predict on one particle: x' = A x, P' = A P A' + Q for every target
PredictParticle(p, Am, Qm) ==
    [p EXCEPT !.M = [k \in 1..p.nTargets |-> MatVec(Am, p.M[k])],
              !.P = [k \in 1..p.nTargets |-> PredictCov(p.P[k], Am, Qm)]]

tracker3d_predict(SSx, Am, Qm) ==
    [i \in 1..Len(SSx) |-> PredictParticle(SSx[i], Am, Qm)]

\* likelihood of observation z under a target with mean m
LikTarget(z, m) == IF SubSeq(m, 1, 3) = z THEN LikNear ELSE 0

\* the target an "assoc" hypothesis picks: the most likely one, the first of equals
BestTarget(p, z) ==
    CHOOSE k \in 1..p.nTargets :
        \A j \in 1..p.nTargets :
            /\ LikTarget(z, p.M[k]) >= LikTarget(z, p.M[j])
            /\ (LikTarget(z, p.M[k]) = LikTarget(z, p.M[j]) => k <= j)

\* the filter update of target k with z: the mean's position moves onto the
\* observation, the position variance and the cross covariance are used up
KfUpdate(p, k, z) ==
    [p EXCEPT !.M[k] = z \o SubSeq(p.M[k], 4, 6),
              !.P[k] = [pp |-> 0, pv |-> 0, vv |-> p.P[k].vv]]

\* a new target born at z: the next identity of the particle, at rest
Birth(p, z) ==
    [p EXCEPT !.nTargets = p.nTargets + 1,
              !.targetIDs = Append(p.targetIDs, p.nTargets),
              !.M = Append(p.M, z \o <<0, 0, 0>>),
              !.P = Append(p.P, P0)]

TimesInt(p, lik) == [p EXCEPT !.W = RMul(p.W, <<lik, 1>>)]

\* one particle's association step for z under hypothesis h: the particle
\* with its targets updated and its weight multiplied by the likelihood
UpdateParticle(p, z, h) ==
    IF h = "assoc" /\ p.nTargets > 0
    THEN LET k == BestTarget(p, z)
         IN  TimesInt(KfUpdate(p, k, z), LikTarget(z, p.M[k]))
    ELSE IF h = "birth"
    THEN TimesInt(Birth(p, z), LikBirth)
    ELSE TimesInt(p, LikClutter)

\* joint normalisation: W_i / sum_j W_j.  With a zero sum an unguarded
\* division leaves NaNs, a guarded one leaves the zeros
normalise_weights(SSx, guarded) ==
    LET total == RSum([i \in 1..Len(SSx) |-> SSx[i].W])
    IN  IF guarded /\ total[1] = 0 THEN SSx
        ELSE [i \in 1..Len(SSx) |-> [SSx[i] EXCEPT !.W = RDiv(SSx[i].W, total)]]

\* the hypotheses sampled for one observation: the particles before index j
\* take h1, the others h2
Hyp == {"assoc", "birth", "clutter"}
SplitPoints == {1, 2}

tracker3d_update(SSx, z, j, h1, h2, guarded) ==
    normalise_weights(
        [i \in 1..Len(SSx) |-> UpdateParticle(SSx[i], z, IF i <= j THEN h1 ELSE h2)],
        guarded)

\* Neff = 1 / sum W_i^2
eff_particles(SSx, Np) ==
    RDiv(<<1, 1>>, RSum([i \in 1..Np |-> RMul(SSx[i].W, SSx[i].W)]))

\* stratified resampling with one random offset u = a/(2 Np): slot i takes the
\* particle whose cumulative-weight interval holds u + i/Np (0-based indices)
UOffsets == {0, 1}
CumW(SSx, k) == RSum([i \in 1..k |-> SSx[i].W])
resampstr(SSx, Np, a) ==
    [i \in 1..Np |->
        LET x == Rat(2 * (i - 1) + a, 2 * Np)
            hit == {k \in 1..Np : RLess(x, CumW(SSx, k))}
        IN  IF hit = {} THEN Np - 1
            ELSE (CHOOSE k \in hit : \A m \in hit : k <= m) - 1]

\* tracker3d_particleCopy(src, dst): dst becomes a deep copy of src; the
\* contents are copied into the storage of dst, which stays its own (mem)
tracker3d_particleCopy(src, dst) ==
    [dst EXCEPT !.W = src.W, !.W0 = src.W0, !.nTargets = src.nTargets, !.dt = src.dt,
                !.targetIDs = src.targetIDs, !.M = src.M, !.P = src.P]

(* ---------------------------- tracker3d_step -------------------------- *)
\* mutant: one loop copies SS[s[i]] over SS[i] in place, so a source slot
\* below i is read after it was overwritten
RECURSIVE InPlaceSource(_, _, _)
InPlaceSource(SSx, sv, i) ==
    IF sv[i] + 1 < i THEN InPlaceSource(SSx, sv, sv[i] + 1) ELSE SSx[sv[i] + 1]

ResampleInto_InPlace(SSx, SSr, Np, sv) ==
    [i \in 1..Len(SSr) |->
        IF i <= Np THEN tracker3d_particleCopy(InPlaceSource(SSx, sv, i), SSr[i])
        ELSE SSr[i]]

\* first loop of the resampling branch: SS[s[i]] -> SS_resamp[i]
ResampleInto(SSx, SSr, Np, sv) ==
    [i \in 1..Len(SSr) |->
        IF i <= Np THEN tracker3d_particleCopy(SSx[sv[i] + 1], SSr[i]) ELSE SSr[i]]

\* mutant: the second loop forgets "W = W0"
ResampleBack_NoReset(SSr, SSx, Np) ==
    [i \in 1..Len(SSx) |->
        IF i <= Np THEN tracker3d_particleCopy(SSr[i], SSx[i]) ELSE SSx[i]]

\* mutant: the resampled ensemble grows by a slot
ResampleBack_ExtraSlot(SSr, SSx, Np) ==
    Append([i \in 1..Len(SSx) |->
                LET c == tracker3d_particleCopy(SSr[i], SSx[i]) IN [c EXCEPT !.W = c.W0]],
           SSr[1])

\* mutant: the second loop stores the pointer SS_resamp[i] in SS[i] instead
\* of copying the particle
ResampleBack_Alias(SSr, SSx, Np) ==
    [i \in 1..Len(SSx) |-> IF i <= Np THEN [SSr[i] EXCEPT !.W = SSr[i].W0] ELSE SSx[i]]

\* second loop: SS_resamp[i] -> SS[i], then W = W0
ResampleBack(SSr, SSx, Np) ==
    [i \in 1..Len(SSx) |->
        IF i <= Np
        THEN LET c == tracker3d_particleCopy(SSr[i], SSx[i]) IN [c EXCEPT !.W = c.W0]
        ELSE SSx[i]]

\* mutant: the test lets every weight distribution through to the resampling
NeedResample_Always(neff, Np) == neff = neff

\* if (Neff < (float)Np/4.0f)
NeedResample(neff, Np) == RLess(neff, Rat(Np, 4))

\* the scan for the maximum weight: maxVal = FLT_MIN, maxIdx = -1, strict <
RECURSIVE MaxScan(_, _, _, _, _)
MaxScan(SSx, Np, i, maxVal, mIdx) ==
    IF i >= Np THEN mIdx
    ELSE IF RLess(maxVal, SSx[i + 1].W)
         THEN MaxScan(SSx, Np, i + 1, SSx[i + 1].W, i)
         ELSE MaxScan(SSx, Np, i + 1, maxVal, mIdx)

\* mutant: the scan with <= instead of <, which keeps the last maximum
RECURSIVE MaxScanLE(_, _, _, _, _)
MaxScanLE(SSx, Np, i, maxVal, mIdx) ==
    IF i >= Np THEN mIdx
    ELSE IF RLess(maxVal, SSx[i + 1].W) \/ maxVal = SSx[i + 1].W
         THEN MaxScanLE(SSx, Np, i + 1, SSx[i + 1].W, i)
         ELSE MaxScanLE(SSx, Np, i + 1, maxVal, mIdx)

MaxIdxOf_LastMax(SSx, Np) == MaxScanLE(SSx, Np, 0, FLT_MIN, -1)

MaxIdxOf(SSx, Np) == MaxScan(SSx, Np, 0, FLT_MIN, -1)

\* position in the observation loop once observation o is next
LoopPc(o, n, incT) ==
    IF o < n THEN (IF incT > 0 THEN "predict" ELSE "update") ELSE "select"

Range(f) == {f[x] : x \in DOMAIN f}

\* values an int of a reallocated, unwritten buffer may hold (any int; two
\* of them here)
StaleInts == {0, 1}

\* the positions the publish loop copies: the first 3 floats of each mean
PublishedXyz(S_max) == [nt \in 1..S_max.nTargets |-> SubSeq(S_max.M[nt], 1, 3)]

\* the identities the publish loop leaves in *target_IDs: "*target_IDs[nt]"
\* is *(target_IDs[nt]), so only nt = 0 writes the buffer; an element
\* nt >= 1 keeps what realloc1d returned: the old buffer's value where the
\* old buffer (old, NULL if none) had one, anything elsewhere
PublishedIDs(S_max, old) ==
    { ids \in [1..S_max.nTargets -> StaleInts \cup {S_max.targetIDs[1]} \cup Range(old)] :
        /\ ids[1] = S_max.targetIDs[1]
        /\ \A nt \in 2..S_max.nTargets :
            IF nt <= Len(old) THEN ids[nt] = old[nt] ELSE ids[nt] \in StaleInts }

\* an entry of events: a prediction pass, the update, the computation of Neff
\* or the resampling done for observation ob; z is the observation an update
\* was given
Event(kind, o, z) == [kind |-> kind, ob |-> o, z |-> z]

\* entry of tracker3d_step on a live tracker: pData->incrementTime++, then
\* the loop test
StepCall ==
    /\ pc = "idle"
    /\ pDataMem = "allocated"
    /\ nCalls < MaxCalls
    /\ \E n \in 0..(MaxUpdates - nUpdates) :
        \E z \in [1..n -> Obs] :
            /\ nObs' = n
            /\ newObs_xyz' = z
            /\ pc' = LoopPc(0, n, incrementTime + 1)
    /\ incrementTime' = incrementTime + 1
    /\ ob' = 0
    /\ kt' = 0
    /\ nCalls' = nCalls + 1
    /\ SS_call' = SS
    /\ emptyRun' = IF nCalls > 0 /\ nObs = 0 THEN emptyRun + 1 ELSE 0
    /\ UNCHANGED leaked
    /\ events' = <<>>
    /\ UNCHANGED <<failedAssert, cfg, hT3d, pDataMem, tpars, R, A, Q, H, W0, SS, SS_resamp,
                   Neff, s, maxIdx, outVars, nUpdates>>
    /\ UNCHANGED dirassVars

\* mutant: the prediction also runs, once, when the batch is empty
Predict_AlsoEmptyBatch ==
    /\ \/ pc = "predict" /\ kt < incrementTime
          /\ pc' = IF kt + 1 < incrementTime THEN "predict" ELSE "update"
       \/ pc = "select" /\ nObs = 0 /\ kt = 0 /\ pc' = pc
    /\ SS' = tracker3d_predict(SS, A, Q)
    /\ kt' = kt + 1
    /\ UNCHANGED <<failedAssert, cfg, hT3d, pDataMem, tpars, R, A, Q, H, W0, SS_resamp,
                   incrementTime, argVars, ob, Neff, s, maxIdx, outVars,
                   nCalls, nUpdates, SS_call, emptyRun, leaked>>
    /\ events' = Append(events, Event("predict", ob, <<>>))
    /\ UNCHANGED dirassVars

\* mutant: the prediction stores the transition matrix of two ticks in A
Predict_AccumulatesA ==
    /\ pc = "predict"
    /\ kt < incrementTime
    /\ SS' = tracker3d_predict(SS, A, Q)
    /\ A' = MatMul(A, A)
    /\ kt' = kt + 1
    /\ pc' = IF kt + 1 < incrementTime THEN "predict" ELSE "update"
    /\ UNCHANGED <<failedAssert, cfg, hT3d, pDataMem, tpars, R, Q, H, W0, SS_resamp,
                   incrementTime, argVars, ob, Neff, s, maxIdx, outVars,
                   nCalls, nUpdates, SS_call, emptyRun, leaked>>
    /\ events' = Append(events, Event("predict", ob, <<>>))
    /\ UNCHANGED dirassVars

\* one pass of "for(kt=0; kt<incrementTime; kt++) tracker3d_predict(...)"
Predict ==
    /\ pc = "predict"
    /\ kt < incrementTime
    /\ SS' = tracker3d_predict(SS, A, Q)
    /\ kt' = kt + 1
    /\ pc' = IF kt + 1 < incrementTime THEN "predict" ELSE "update"
    /\ UNCHANGED <<failedAssert, cfg, hT3d, pDataMem, tpars, R, A, Q, H, W0, SS_resamp,
                   incrementTime, argVars, ob, Neff, s, maxIdx, outVars,
                   nCalls, nUpdates, SS_call, emptyRun, leaked>>
    /\ events' = Append(events, Event("predict", ob, <<>>))
    /\ UNCHANGED dirassVars

\* mutant: the update leaves the tick counter as it is
Update_KeepsTicks ==
    /\ pc = "update"
    /\ \E j \in SplitPoints, h1 \in Hyp, h2 \in Hyp, guarded \in BOOLEAN :
        SS' = tracker3d_update(SS, newObs_xyz[ob + 1], j, h1, h2, guarded)
    /\ nUpdates' = nUpdates + 1
    /\ pc' = "neff"
    /\ UNCHANGED <<failedAssert, cfg, hT3d, pDataMem, tpars, R, A, Q, H, W0, SS_resamp,
                   incrementTime, argVars, localVars, outVars, nCalls, SS_call, emptyRun, leaked>>
    /\ events' = Append(events, Event("update", ob, newObs_xyz[ob + 1]))
    /\ UNCHANGED dirassVars

\* tracker3d_update with observation ob, then incrementTime = 0
Update ==
    /\ pc = "update"
    /\ \E j \in SplitPoints, h1 \in Hyp, h2 \in Hyp, guarded \in BOOLEAN :
        SS' = tracker3d_update(SS, newObs_xyz[ob + 1], j, h1, h2, guarded)
    /\ incrementTime' = 0
    /\ nUpdates' = nUpdates + 1
    /\ pc' = "neff"
    /\ UNCHANGED <<failedAssert, cfg, hT3d, pDataMem, tpars, R, A, Q, H, W0, SS_resamp,
                   argVars, localVars, outVars, nCalls, SS_call, emptyRun, leaked>>
    /\ events' = Append(events, Event("update", ob, newObs_xyz[ob + 1]))
    /\ UNCHANGED dirassVars

\* mutant: without resampling the loop skips the next observation
EffParticles_SkipsObservation ==
    /\ pc = "neff"
    /\ Neff' = eff_particles(SS, tpars.Np)
    /\ IF NeedResample(Neff', tpars.Np)
       THEN pc' = "resample" /\ ob' = ob
       ELSE pc' = LoopPc(ob + 2, nObs, incrementTime) /\ ob' = ob + 2
    /\ kt' = 0
    /\ UNCHANGED <<failedAssert, cfg, hT3d, pDataMem, pDataVars, argVars, s, maxIdx, outVars,
                   nCalls, nUpdates, SS_call, emptyRun, leaked>>
    /\ events' = Append(events, Event("neff", ob, <<>>))
    /\ UNCHANGED dirassVars

\* Neff = eff_particles(...) and the test of line 168; without resampling the
\* loop goes on with the next observation
EffParticles ==
    /\ pc = "neff"
    /\ Neff' = eff_particles(SS, tpars.Np)
    /\ IF NeedResample(Neff', tpars.Np)
       THEN pc' = "resample" /\ ob' = ob
       ELSE pc' = LoopPc(ob + 1, nObs, incrementTime) /\ ob' = ob + 1
    /\ kt' = 0
    /\ UNCHANGED <<failedAssert, cfg, hT3d, pDataMem, pDataVars, argVars, s, maxIdx, outVars,
                   nCalls, nUpdates, SS_call, emptyRun, leaked>>
    /\ events' = Append(events, Event("neff", ob, <<>>))
    /\ UNCHANGED dirassVars

\* the resampling branch, lines 172-178
Resample ==
    /\ pc = "resample"
    /\ \E a \in UOffsets : s' = resampstr(SS, tpars.Np, a)
    /\ SS_resamp' = ResampleInto(SS, SS_resamp, tpars.Np, s')
    /\ SS' = ResampleBack(SS_resamp', SS, tpars.Np)
    /\ pc' = "resampled"
    /\ UNCHANGED <<failedAssert, cfg, hT3d, pDataMem, tpars, R, A, Q, H, W0, incrementTime,
                   argVars, ob, kt, Neff, maxIdx, outVars, nCalls, nUpdates, SS_call, emptyRun, leaked>>
    /\ events' = Append(events, Event("resample", ob, <<>>))
    /\ UNCHANGED dirassVars

\* end of the loop body after a resampling
EndResample ==
    /\ pc = "resampled"
    /\ ob' = ob + 1
    /\ kt' = 0
    /\ pc' = LoopPc(ob + 1, nObs, incrementTime)
    /\ UNCHANGED <<failedAssert, cfg, hT3d, pDataMem, pDataVars, argVars, Neff, s, maxIdx,
                   outVars, nCalls, nUpdates, SS_call, emptyRun, leaked, events>>
    /\ UNCHANGED dirassVars

\* lines 183-192: the particle of maximum weight, assert(maxIdx!=-1)
Select ==
    /\ pc = "select"
    /\ maxIdx' = MaxIdxOf(SS, tpars.Np)
    /\ IF maxIdx' = -1
       THEN pc' = "aborted" /\ failedAssert' = "maxIdx!=-1"
       ELSE pc' = "publish" /\ UNCHANGED failedAssert
    /\ UNCHANGED <<cfg, hT3d, pDataMem, pDataVars, argVars, ob, kt, Neff, s, outVars,
                   nCalls, nUpdates, SS_call, emptyRun, leaked, events>>
    /\ UNCHANGED dirassVars

\* mutant: the empty result sets the count and leaves both pointers alone
PublishNone_KeepsPointers ==
    /\ pc = "publish"
    /\ SS[maxIdx + 1].nTargets = 0
    /\ nTargets' = 0
    /\ pc' = "idle"
    /\ UNCHANGED <<failedAssert, cfg, hT3d, pDataMem, pDataVars, argVars, localVars,
                   target_xyz, target_IDs, nCalls, nUpdates, SS_call, emptyRun, leaked, events>>
    /\ UNCHANGED dirassVars

\* lines 195-202: S_max holds no target.  The two pointers are overwritten
\* with NULL as they are: a buffer that an earlier call allocated through
\* one of them is neither freed nor referred to afterwards
PublishNone ==
    /\ pc = "publish"
    /\ SS[maxIdx + 1].nTargets = 0
    /\ target_xyz' = NULL
    /\ target_IDs' = NULL
    /\ nTargets' = 0
    /\ leaked' = leaked + (IF target_xyz # NULL THEN 1 ELSE 0)
                        + (IF target_IDs # NULL THEN 1 ELSE 0)
    /\ pc' = "idle"
    /\ UNCHANGED <<failedAssert, cfg, hT3d, pDataMem, pDataVars, argVars, localVars,
                   nCalls, nUpdates, SS_call, emptyRun, events>>
    /\ UNCHANGED dirassVars

\* lines 203-215: the buffers are reallocated and filled
PublishTargets ==
    /\ pc = "publish"
    /\ SS[maxIdx + 1].nTargets > 0
    /\ target_xyz' = PublishedXyz(SS[maxIdx + 1])
    /\ target_IDs' \in PublishedIDs(SS[maxIdx + 1], target_IDs)
    /\ nTargets' = SS[maxIdx + 1].nTargets
    /\ pc' = "idle"
    /\ UNCHANGED <<failedAssert, cfg, hT3d, pDataMem, pDataVars, argVars, localVars,
                   nCalls, nUpdates, SS_call, emptyRun, leaked, events>>
    /\ UNCHANGED dirassVars

\* line 212 with nt >= 1 writes through the word that follows the caller's
\* pointer variable: the write may fault
PublishCrash ==
    /\ pc = "publish"
    /\ SS[maxIdx + 1].nTargets > 1
    /\ pc' = "crashed"
    /\ UNCHANGED <<failedAssert, cfg, hT3d, pDataMem, pDataVars, argVars, localVars, outVars,
                   nCalls, nUpdates, SS_call, emptyRun, leaked, events>>
    /\ UNCHANGED dirassVars

\* the positions of the caller thread inside tracker3d_step
InStep == {"predict", "update", "neff", "resample", "resampled", "select", "publish"}

\* a running step reads or writes tracker memory that tracker3d_destroy has
\* freed meanwhile: the access faults, or it finds the blocks as they were
\* (the other step actions)
StepUseAfterFree ==
    /\ pc \in InStep
    /\ pDataMem = "freed"
    /\ pc' = "crashed"
    /\ UNCHANGED <<failedAssert, cfg, hT3d, pDataMem, pDataVars, argVars, localVars,
                   outVars, nCalls, nUpdates, SS_call, emptyRun, leaked, events>>
    /\ UNCHANGED dirassVars

tracker3d_step ==
    \/ StepCall \/ Predict \/ Update \/ EffParticles \/ Resample \/ EndResample
    \/ Select \/ PublishNone \/ PublishTargets \/ PublishCrash \/ StepUseAfterFree

(* --------------------------- tracker3d_destroy ------------------------ *)
\* tracker3d_destroy(&hT3d) on a live tracker, called between two steps or,
\* from a second thread, while a step runs (nothing in the function looks at
\* what the tracker is doing): pData != NULL, so the particles, SS,
\* SS_resamp and pData are freed.  "pData = NULL" clears the local variable
\* only: the caller's handle keeps the address.  The freed blocks are shown
\* with the contents they had
DestroyTracker ==
    /\ pc \in {"idle"} \cup InStep
    /\ hT3d # "NULL"
    /\ pDataMem = "allocated"
    /\ pDataMem' = "freed"
    /\ UNCHANGED <<pc, failedAssert, cfg, hT3d, pDataVars, argVars, localVars,
                   outVars, nCalls, nUpdates, SS_call, emptyRun, leaked, events>>
    /\ UNCHANGED dirassVars

\* tracker3d_destroy(&hT3d) before any tracker was created: *phT3d is NULL,
\* the test of line 114 fails and the function returns
DestroyNullTracker ==
    /\ pc = "start"
    /\ hT3d = "NULL"
    /\ UNCHANGED trackerVars
    /\ UNCHANGED dirassVars

\* tracker3d_destroy(&hT3d) once more after a destroy has returned, no step
\* running: the handle still holds the address, so line 116 reads tpars.Np
\* from the freed block and lines 117-128 free the freed blocks again; the
\* call faults or returns with the heap damaged
DestroyFreedTracker ==
    /\ pc = "idle"
    /\ hT3d # "NULL"
    /\ pDataMem = "freed"
    /\ pDataMem' = "freed twice"
    /\ pc' \in {"idle", "crashed"}
    /\ UNCHANGED <<failedAssert, cfg, hT3d, pDataVars, argVars, localVars,
                   outVars, nCalls, nUpdates, SS_call, emptyRun, leaked, events>>
    /\ UNCHANGED dirassVars

tracker3d_destroy == DestroyTracker \/ DestroyNullTracker \/ DestroyFreedTracker

Next == tracker3d_create \/ tracker3d_step \/ tracker3d_destroy

Spec == Init /\ [][Next]_vars

(* ============================ dirass ================================== *)
(* The dirass example (dirass.c): one instance after dirass_create, used  *)
(* by three threads.  A third thread calls dirass_destroy, once; dstPc is  *)
(* its position.  The audio thread calls dirass_analysis; anaPc is its    *)
(* position.  The control thread calls the setters, dirass_init,          *)
(* dirass_initCodec and the getters; ctlPc is its position.  A position   *)
(* "Lnnn" is "about to execute line nnn".  Every step reads or writes the *)
(* shared fields of dirass_data once, in program order.                   *)

\* the instance that dirass_create returns
dirass_create ==
    /\ codecStatus = CODEC_STATUS_NOT_INITIALISED
    /\ procStatus = PROC_STATUS_NOT_ONGOING
    /\ pmapReady = 0
    /\ recalcPmap = 1
    /\ dispSlotIdx \in UninitSlotIdx
    /\ new_inputOrder = INPUT_ORDER_FIRST
    /\ new_upscaleOrder = UPSCALE_ORDER_TENTH
    /\ gridOption = GRID_GEOSPHERE_8
    /\ chOrdering = CH_ACN
    /\ norm = NORM_SN3D
    /\ anaPc = "idle" /\ ctlPc = "idle"
    /\ outWritten = FALSE /\ ret = -1
    /\ hDir = "pData" /\ dirassMem = "allocated" /\ dstPc = "idle"

\* a handle that is NULL: no instance was created, and the only call made
\* with it is dirass_destroy
NullHandle ==
    /\ codecStatus = CODEC_STATUS_NOT_INITIALISED
    /\ procStatus = PROC_STATUS_NOT_ONGOING
    /\ pmapReady = 0 /\ recalcPmap = 0 /\ dispSlotIdx = 0
    /\ new_inputOrder = 0 /\ new_upscaleOrder = 0 /\ gridOption = 0
    /\ chOrdering = 0 /\ norm = 0
    /\ anaPc = "none" /\ ctlPc = "none"
    /\ outWritten = FALSE /\ ret = -1
    /\ hDir = "NULL" /\ dirassMem = "none" /\ dstPc = "idle"

InitDirass == NoTracker /\ (dirass_create \/ NullHandle)

(* ------------------------- control thread: setters -------------------- *)
\* dirass_init
dirass_init ==
    /\ ctlPc = "idle"
    /\ dirassMem = "allocated"
    /\ pmapReady' = 0
    /\ dispSlotIdx' = 0
    /\ UNCHANGED <<statusVars, recalcPmap, userVars, anaPc, ctlPc, getVars>>
    /\ UNCHANGED destroyVars
    /\ UNCHANGED trackerVars

\* dirass_setCodecStatus(hDir, newStatus): the status after the call
dirass_setCodecStatus(newStatus) == newStatus

dirass_setInputOrder ==
    /\ ctlPc = "idle"
    /\ dirassMem = "allocated"
    /\ \E newValue \in InputOrders :
        /\ new_inputOrder' = newValue
        /\ codecStatus' = IF new_inputOrder # newValue
                          THEN dirass_setCodecStatus(CODEC_STATUS_NOT_INITIALISED)
                          ELSE codecStatus
        /\ chOrdering' = IF newValue # INPUT_ORDER_FIRST /\ chOrdering = CH_FUMA
                         THEN CH_ACN ELSE chOrdering
        /\ norm' = IF newValue # INPUT_ORDER_FIRST /\ norm = NORM_FUMA
                   THEN NORM_SN3D ELSE norm
    /\ UNCHANGED <<procStatus, pmapVars, new_upscaleOrder, gridOption, anaPc, ctlPc,
                   getVars>>
    /\ UNCHANGED destroyVars
    /\ UNCHANGED trackerVars

dirass_setDisplayGridOption ==
    /\ ctlPc = "idle"
    /\ dirassMem = "allocated"
    /\ \E newState \in GridOptions :
        /\ gridOption' = newState
        /\ codecStatus' = IF gridOption # newState
                          THEN dirass_setCodecStatus(CODEC_STATUS_NOT_INITIALISED)
                          ELSE codecStatus
    /\ UNCHANGED <<procStatus, pmapVars, new_inputOrder, new_upscaleOrder, chOrdering,
                   norm, anaPc, ctlPc, getVars>>
    /\ UNCHANGED destroyVars
    /\ UNCHANGED trackerVars

dirass_setUpscaleOrder ==
    /\ ctlPc = "idle"
    /\ dirassMem = "allocated"
    /\ \E newValue \in UpscaleOrders :
        /\ new_upscaleOrder' = newValue
        /\ codecStatus' = IF new_upscaleOrder # newValue
                          THEN dirass_setCodecStatus(CODEC_STATUS_NOT_INITIALISED)
                          ELSE codecStatus
    /\ UNCHANGED <<procStatus, pmapVars, new_inputOrder, gridOption, chOrdering, norm,
                   anaPc, ctlPc, getVars>>
    /\ UNCHANGED destroyVars
    /\ UNCHANGED trackerVars

\* mutant: FUMA ordering is accepted at every input order
dirass_setChOrder_NoOrderTest ==
    /\ ctlPc = "idle"
    /\ dirassMem = "allocated"
    /\ \E newOrder \in ChOrders : chOrdering' = newOrder
    /\ UNCHANGED <<statusVars, pmapVars, new_inputOrder, new_upscaleOrder, gridOption,
                   norm, anaPc, ctlPc, getVars>>
    /\ UNCHANGED destroyVars
    /\ UNCHANGED trackerVars

dirass_setChOrder ==
    /\ ctlPc = "idle"
    /\ dirassMem = "allocated"
    /\ \E newOrder \in ChOrders :
        chOrdering' = IF newOrder # CH_FUMA \/ new_inputOrder = INPUT_ORDER_FIRST
                      THEN newOrder ELSE chOrdering
    /\ UNCHANGED <<statusVars, pmapVars, new_inputOrder, new_upscaleOrder, gridOption,
                   norm, anaPc, ctlPc, getVars>>
    /\ UNCHANGED destroyVars
    /\ UNCHANGED trackerVars

dirass_setNormType ==
    /\ ctlPc = "idle"
    /\ dirassMem = "allocated"
    /\ \E newType \in NormTypes :
        norm' = IF newType # NORM_FUMA \/ new_inputOrder = INPUT_ORDER_FIRST
                THEN newType ELSE norm
    /\ UNCHANGED <<statusVars, pmapVars, new_inputOrder, new_upscaleOrder, gridOption,
                   chOrdering, anaPc, ctlPc, getVars>>
    /\ UNCHANGED destroyVars
    /\ UNCHANGED trackerVars

dirass_requestPmapUpdate ==
    /\ ctlPc = "idle"
    /\ dirassMem = "allocated"
    /\ recalcPmap' = 1
    /\ UNCHANGED <<statusVars, pmapReady, dispSlotIdx, userVars, anaPc, ctlPc, getVars>>
    /\ UNCHANGED destroyVars
    /\ UNCHANGED trackerVars

(* ---------------------- control thread: dirass_initCodec -------------- *)
\* the call and the test of line 168
InitCodecCall ==
    /\ ctlPc = "idle"
    /\ dirassMem = "allocated"
    /\ ctlPc' = IF codecStatus # CODEC_STATUS_NOT_INITIALISED THEN "idle" ELSE "L170"
    /\ UNCHANGED <<statusVars, pmapVars, userVars, anaPc, getVars>>
    /\ UNCHANGED destroyVars
    /\ UNCHANGED trackerVars

\* one test of "while (procStatus == PROC_STATUS_ONGOING)" and, if it holds,
\* one pass of the loop body
InitCodecWait ==
    /\ ctlPc = "L170"
    /\ IF procStatus = PROC_STATUS_ONGOING
       THEN codecStatus' = CODEC_STATUS_INITIALISING /\ ctlPc' = "L170"
       ELSE codecStatus' = codecStatus /\ ctlPc' = "L177"
    /\ UNCHANGED <<procStatus, pmapVars, userVars, anaPc, getVars>>
    /\ UNCHANGED destroyVars
    /\ UNCHANGED trackerVars

\* lines 177-179
InitCodecBegin ==
    /\ ctlPc = "L177"
    /\ codecStatus' = CODEC_STATUS_INITIALISING
    /\ ctlPc' = "L181"
    /\ UNCHANGED <<procStatus, pmapVars, userVars, anaPc, getVars>>
    /\ UNCHANGED destroyVars
    /\ UNCHANGED trackerVars

\* dirass_initAna: rebuilds the codec's tables and buffers (pars)
dirass_initAna ==
    /\ ctlPc = "L181"
    /\ ctlPc' = "L184"
    /\ UNCHANGED <<statusVars, pmapVars, userVars, anaPc, getVars>>
    /\ UNCHANGED destroyVars
    /\ UNCHANGED trackerVars

\* lines 184-186
InitCodecEnd ==
    /\ ctlPc = "L184"
    /\ codecStatus' = CODEC_STATUS_INITIALISED
    /\ ctlPc' = "idle"
    /\ UNCHANGED <<procStatus, pmapVars, userVars, anaPc, getVars>>
    /\ UNCHANGED destroyVars
    /\ UNCHANGED trackerVars

dirass_initCodec ==
    InitCodecCall \/ InitCodecWait \/ InitCodecBegin \/ dirass_initAna \/ InitCodecEnd

\* the control thread executes the (re-)initialisation body, lines 177-186
InInitBody == ctlPc \in {"L181", "L184"}

(* ------------------------ control thread: getters --------------------- *)
\* the value dirass_getUpscaleOrder returns
GetUpscaleOrder == gridOption

dirass_getUpscaleOrder ==
    /\ ctlPc = "idle"
    /\ dirassMem = "allocated"
    /\ ret' = GetUpscaleOrder
    /\ ctlPc' = "getUpscaleOrder.ret"
    /\ UNCHANGED <<statusVars, pmapVars, userVars, anaPc, outWritten>>
    /\ UNCHANGED destroyVars
    /\ UNCHANGED trackerVars

\* dirass_getPmap, line 664 and the assignments it guards
GetPmapTest ==
    /\ ctlPc = "idle"
    /\ dirassMem = "allocated"
    /\ outWritten' = (codecStatus = CODEC_STATUS_INITIALISED /\ pmapReady # 0)
    /\ ctlPc' = "L683"
    /\ UNCHANGED <<statusVars, pmapVars, userVars, anaPc, ret>>
    /\ UNCHANGED destroyVars
    /\ UNCHANGED trackerVars

\* line 683: return pData->pmapReady
GetPmapReturn ==
    /\ ctlPc = "L683"
    /\ ret' = pmapReady
    /\ ctlPc' = "getPmap.ret"
    /\ UNCHANGED <<statusVars, pmapVars, userVars, anaPc, outWritten>>
    /\ UNCHANGED destroyVars
    /\ UNCHANGED trackerVars

dirass_getPmap == GetPmapTest \/ GetPmapReturn

\* the caller has used the getter's result
GetterDone ==
    /\ ctlPc \in {"getPmap.ret", "getUpscaleOrder.ret"}
    /\ ctlPc' = "idle"
    /\ outWritten' = FALSE
    /\ ret' = -1
    /\ UNCHANGED <<statusVars, pmapVars, userVars, anaPc>>
    /\ UNCHANGED destroyVars
    /\ UNCHANGED trackerVars

(* ----------------------- audio thread: dirass_analysis ---------------- *)
\* mutant: the test of line 212 lets a frame through while the codec is
\* marked for initialisation
AnalysisCall_DuringInitialising ==
    /\ anaPc = "idle"
    /\ dirassMem = "allocated"
    /\ \E nSamplesOk \in BOOLEAN, isPlaying \in BOOLEAN :
        anaPc' = IF nSamplesOk /\ codecStatus # CODEC_STATUS_NOT_INITIALISED /\ isPlaying
                 THEN "L213" ELSE "L421"
    /\ UNCHANGED <<statusVars, pmapVars, userVars, ctlPc, getVars>>
    /\ UNCHANGED destroyVars
    /\ UNCHANGED trackerVars

\* the call and the test of line 212; nSamplesOk is "nSamples == FRAME_SIZE"
AnalysisCall ==
    /\ anaPc = "idle"
    /\ dirassMem = "allocated"
    /\ \E nSamplesOk \in BOOLEAN, isPlaying \in BOOLEAN :
        anaPc' = IF nSamplesOk /\ codecStatus = CODEC_STATUS_INITIALISED /\ isPlaying
                 THEN "L213" ELSE "L421"
    /\ UNCHANGED <<statusVars, pmapVars, userVars, ctlPc, getVars>>
    /\ UNCHANGED destroyVars
    /\ UNCHANGED trackerVars

\* line 213
AnalysisBegin ==
    /\ anaPc = "L213"
    /\ procStatus' = PROC_STATUS_ONGOING
    /\ anaPc' = "L215"
    /\ UNCHANGED <<codecStatus, pmapVars, userVars, ctlPc, getVars>>
    /\ UNCHANGED destroyVars
    /\ UNCHANGED trackerVars

\* lines 215-276: the parameters are copied, the frame is loaded, and the
\* map is recomputed only if requested
AnalysisLoad ==
    /\ anaPc = "L215"
    /\ IF recalcPmap = 1
       THEN recalcPmap' = 0 /\ pmapReady' = 0 /\ anaPc' = "L278"
       ELSE UNCHANGED <<recalcPmap, pmapReady>> /\ anaPc' = "L421"
    /\ UNCHANGED <<statusVars, dispSlotIdx, userVars, ctlPc, getVars>>
    /\ UNCHANGED destroyVars
    /\ UNCHANGED trackerVars

\* lines 278-411: the map is computed into pmap_grid[dispSlotIdx]; with an
\* index outside the array the writes may fault
AnalysisPmap ==
    /\ anaPc = "L278"
    /\ IF dispSlotIdx \in 0..(NUM_DISP_SLOTS - 1)
       THEN anaPc' = "L414"
       ELSE anaPc' \in {"L414", "crashed"}
    /\ UNCHANGED <<statusVars, pmapVars, userVars, ctlPc, getVars>>
    /\ UNCHANGED destroyVars
    /\ UNCHANGED trackerVars

\* lines 414-417
AnalysisPmapReady ==
    /\ anaPc = "L414"
    /\ dispSlotIdx' = IF dispSlotIdx + 1 >= NUM_DISP_SLOTS THEN 0 ELSE dispSlotIdx + 1
    /\ pmapReady' = 1
    /\ anaPc' = "L421"
    /\ UNCHANGED <<statusVars, recalcPmap, userVars, ctlPc, getVars>>
    /\ UNCHANGED destroyVars
    /\ UNCHANGED trackerVars

\* line 421
AnalysisEnd ==
    /\ anaPc = "L421"
    /\ procStatus' = PROC_STATUS_NOT_ONGOING
    /\ anaPc' = "idle"
    /\ UNCHANGED <<codecStatus, pmapVars, userVars, ctlPc, getVars>>
    /\ UNCHANGED destroyVars
    /\ UNCHANGED trackerVars

dirass_analysis ==
    \/ AnalysisCall \/ AnalysisBegin \/ AnalysisLoad \/ AnalysisPmap
    \/ AnalysisPmapReady \/ AnalysisEnd

\* the audio thread executes the main processing body, lines 213-419
InProcBody == anaPc \in {"L215", "L278", "L414"}

(* ------------------------------ dirass_destroy ------------------------ *)
\* the threads that are inside a call when dirass_destroy frees the
\* instance read or write freed memory: the access faults, or it finds the
\* blocks as they were (the other actions of the thread)
DirassUseAfterFree ==
    /\ dirassMem = "freed"
    /\ \/ /\ anaPc \in {"L213", "L215", "L278", "L414", "L421"}
          /\ anaPc' = "crashed"
          /\ UNCHANGED ctlPc
       \/ /\ ctlPc \in {"L170", "L177", "L181", "L184", "L683"}
          /\ ctlPc' = "crashed"
          /\ UNCHANGED anaPc
    /\ UNCHANGED <<statusVars, pmapVars, userVars, getVars, destroyVars>>
    /\ UNCHANGED trackerVars

\* the call and line 103: pData = *phDir
DestroyCall ==
    /\ dstPc = "idle"
    /\ dstPc' = "L104"
    /\ UNCHANGED <<statusVars, pmapVars, userVars, anaPc, ctlPc, getVars, hDir, dirassMem>>
    /\ UNCHANGED trackerVars

\* line 104: pars = pData->pars, read before pData is tested.  With a NULL
\* handle the read is a NULL dereference: it faults, or the function goes on
\* with whatever it read
DestroyDeref ==
    /\ dstPc = "L104"
    /\ IF hDir = "NULL"
       THEN dstPc' \in {"crashed", "L107"}
       ELSE dstPc' = "L107"
    /\ UNCHANGED <<statusVars, pmapVars, userVars, anaPc, ctlPc, getVars, hDir, dirassMem>>
    /\ UNCHANGED trackerVars

\* line 107: if (pData != NULL).  After the dereference of line 104 the
\* build may have dropped the test, and the loop of line 109 then reads
\* through NULL
DestroyTest ==
    /\ dstPc = "L107"
    /\ IF hDir = "NULL"
       THEN dstPc' \in {"returned", "crashed"}
       ELSE dstPc' = "L109"
    /\ UNCHANGED <<statusVars, pmapVars, userVars, anaPc, ctlPc, getVars, hDir, dirassMem>>
    /\ UNCHANGED trackerVars

\* lines 109-112: one test of the busy-wait loop
DestroyWait ==
    /\ dstPc = "L109"
    /\ dstPc' = IF codecStatus = CODEC_STATUS_INITIALISING
                    \/ procStatus = PROC_STATUS_ONGOING
                THEN "L109" ELSE "L114"
    /\ UNCHANGED <<statusVars, pmapVars, userVars, anaPc, ctlPc, getVars, hDir, dirassMem>>
    /\ UNCHANGED trackerVars

\* lines 114-135: the maps, the codec data and the instance are freed;
\* "pData = NULL" clears the local variable, the caller's handle keeps the
\* address
DestroyFree ==
    /\ dstPc = "L114"
    /\ dirassMem' = "freed"
    /\ dstPc' = "returned"
    /\ UNCHANGED <<statusVars, pmapVars, userVars, anaPc, ctlPc, getVars, hDir>>
    /\ UNCHANGED trackerVars

dirass_destroy == DestroyCall \/ DestroyDeref \/ DestroyTest \/ DestroyWait \/ DestroyFree

NextDirass ==
    \/ dirass_init \/ dirass_setInputOrder \/ dirass_setDisplayGridOption
    \/ dirass_setUpscaleOrder \/ dirass_setChOrder \/ dirass_setNormType
    \/ dirass_requestPmapUpdate \/ dirass_initCodec
    \/ dirass_getUpscaleOrder \/ dirass_getPmap \/ GetterDone
    \/ dirass_analysis
    \/ dirass_destroy \/ DirassUseAfterFree

SpecDirass == InitDirass /\ [][NextDirass]_vars

\* Both threads are scheduled fairly: a thread that is inside
\* dirass_initCodec or dirass_analysis goes on to its next statement.
\* Nothing obliges a caller to make a call
FairDirass ==
    /\ WF_vars(InitCodecWait) /\ WF_vars(InitCodecBegin)
    /\ WF_vars(dirass_initAna) /\ WF_vars(InitCodecEnd)
    /\ WF_vars(AnalysisBegin) /\ WF_vars(AnalysisLoad) /\ WF_vars(AnalysisPmap)
    /\ WF_vars(AnalysisPmapReady) /\ WF_vars(AnalysisEnd)

SpecDirassFair == InitDirass /\ [][NextDirass]_vars /\ FairDirass

(* ============================== claims ================================ *)
\* a step call has returned to the caller
Returned == pc = "idle" /\ nCalls > 0

Weights(SSx) == [i \in 1..Len(SSx) |-> SSx[i].W]

\* a configuration the specification rejects
InvalidConfig(c) ==
    \/ c.Np > TRACKER3D_MAX_NUM_PARTICLES
    \/ c.MULTI_ACTIVE # 0
    \/ c.dt <= 0
    \/ c.measNoiseSD_deg < 0
    \/ c.noiseSpecDen_deg < 0

\* the tracker was created from a configuration the specification accepts
ValidTracker == pc # "start" /\ ~InvalidConfig(cfg)

\* the lowest index (1-based) among the particles of maximal weight
FirstMaxParticle(SSx) ==
    CHOOSE m \in 1..Len(SSx) :
        /\ \A i \in 1..Len(SSx) : ~RLess(SSx[m].W, SSx[i].W)
        /\ \A i \in 1..(m - 1) : RLess(SSx[i].W, SSx[m].W)

\* C1 (as claimed): on a validly configured tracker, when the particle
\* selected at the end of tracker3d_step holds n >= 1 targets, the step
\* returns and reports count n, the k-th output id is that particle's k-th
\* target ID and the k-th output position is the first three components of
\* its k-th target mean, for every k in 0..n-1.
C1_PublishesSelectedTargets ==
    (/\ ValidTracker
     /\ pc \in {"idle", "crashed"}
     /\ nCalls > 0
     /\ maxIdx # -1
     /\ SS[maxIdx + 1].nTargets >= 1)
    => /\ pc = "idle"
       /\ nTargets = SS[maxIdx + 1].nTargets
       /\ \A k \in 1..SS[maxIdx + 1].nTargets :
            /\ target_IDs[k] = SS[maxIdx + 1].targetIDs[k]
            /\ target_xyz[k] = SubSeq(SS[maxIdx + 1].M[k], 1, 3)

\* C2: the target list a returned step has published is the one of the
\* lowest-index particle among those of maximal weight, whose weight is
\* greater than or equal to every particle's weight.
C2_PublishesFirstMaxWeight ==
    Returned =>
        LET m == FirstMaxParticle(SS)
        IN  /\ \A i \in 1..Len(SS) : ~RLess(SS[m].W, SS[i].W)
            /\ nTargets = SS[m].nTargets
            /\ target_xyz = PublishedXyz(SS[m])

\* C2 witness: a step has returned whose maximal weight is not held by the
\* first particle and whose published list is not empty
C2_Witness ==
    /\ Returned
    /\ FirstMaxParticle(SS) > 1
    /\ nTargets > 0

\* C3: once tracker3d_create has allocated the particles, SS and SS_resamp
\* hold exactly the configured Np slots, in every later state, also after
\* resampling.
C3_EnsembleSize ==
    (hT3d # "NULL" /\ cfg.Np <= TRACKER3D_MAX_NUM_PARTICLES)
    => /\ Len(SS) = cfg.Np
       /\ Len(SS_resamp) = cfg.Np
       /\ tpars.Np = cfg.Np

\* C3 witness: a step in which resampling happened has returned
C3_Witness ==
    /\ Returned
    /\ s # <<>>
    /\ Len(SS) = cfg.Np

\* C4: immediately after the resampling branch every particle's weight is
\* W0 = 1/Np, the weights sum to 1 and Neff is Np.
C4_UniformAfterResample ==
    pc = "resampled" =>
        /\ \A i \in 1..tpars.Np : SS[i].W = W0 /\ SS[i].W = Rat(1, tpars.Np)
        /\ RSum(Weights(SS)) = <<1, 1>>
        /\ eff_particles(SS, tpars.Np) = <<tpars.Np, 1>>

\* C4 witness: the resampling branch has run on an ensemble that holds targets
C4_Witness ==
    /\ pc = "resampled"
    /\ \E i \in 1..tpars.Np : SS[i].nTargets > 0

\* C5: after every step call that has returned, the weights are
\* non-negative (finite) and sum to 1.
C5_WeightsNormalised ==
    Returned =>
        /\ \A i \in 1..tpars.Np : IsFinite(SS[i].W) /\ SS[i].W[1] >= 0
        /\ RSum(Weights(SS)) = <<1, 1>>

\* C5 witness: a step that processed observations has returned with
\* weights that are not all equal
C5_Witness ==
    /\ Returned
    /\ nObs > 0
    /\ \E i, j \in 1..tpars.Np : RLess(SS[i].W, SS[j].W)

\* C6 (as claimed): on a validly configured tracker, a step call with an
\* empty batch has made the trace of every target's covariance grow and has
\* left every weight unchanged.
C6_EmptyBatchPredicts ==
    (ValidTracker /\ Returned /\ nObs = 0) =>
        \A i \in 1..tpars.Np :
            /\ SS[i].W = SS_call[i].W
            /\ \A k \in 1..SS[i].nTargets :
                Trace(SS[i].P[k]) > Trace(SS_call[i].P[k])

\* C6 (amended): during and after a step call with an empty batch the
\* ensemble is exactly as it was at the entry of the call (no prediction
\* runs: targets, covariances, weights and so Neff are unchanged), and the
\* tick counter holds one more elapsed tick for the next observation.
C6_EmptyBatchDefersPredict ==
    (nCalls > 0 /\ nObs = 0 /\ pc \in {"select", "publish", "idle"}) =>
        /\ SS = SS_call
        /\ eff_particles(SS, tpars.Np) = eff_particles(SS_call, tpars.Np)
        /\ incrementTime >= 1

\* C6 witness: an empty-batch step has returned on an ensemble with targets
C6_Witness ==
    /\ Returned
    /\ nObs = 0
    /\ \E i \in 1..tpars.Np : SS[i].nTargets > 0

\* C7 (as claimed): tracker3d_create with Np above
\* TRACKER3D_MAX_NUM_PARTICLES, or with the multi-active flag, does not
\* abort the process.
C7_ConfigErrorNoAbort ==
    (pc # "start" /\ (cfg.Np > TRACKER3D_MAX_NUM_PARTICLES \/ cfg.MULTI_ACTIVE # 0))
    => pc # "aborted"

\* C8 (as claimed): tracker3d_create with dt <= 0 or a negative noise
\* parameter does not build the dynamic and measurement models and does not
\* hand out a tracker ready for tracker3d_step.
C8_BadDtOrNoiseRejected ==
    (pc # "start"
     /\ (cfg.dt <= 0 \/ cfg.measNoiseSD_deg < 0 \/ cfg.noiseSpecDen_deg < 0))
    => /\ A = <<>> /\ Q = <<>> /\ H = <<>> /\ R = <<>>
       /\ pc # "idle"

\* C9 (as claimed): after tracker3d_create with an invalid configuration
\* the caller's handle is not set and no particle has been allocated.
C9_NoTrackerOnInvalidConfig ==
    (pc # "start" /\ InvalidConfig(cfg))
    => /\ hT3d = "NULL"
       /\ SS = <<>>
       /\ SS_resamp = <<>>

\* all weights are zero or NaN
Collapsed(SSx) == \A i \in 1..Len(SSx) : IsNaN(SSx[i].W) \/ SSx[i].W[1] = 0

\* C10 (as claimed): on a validly configured tracker, collapsed weights exist
\* only between the update and the resampling that replaces them: the step
\* resamples, does not abort and carries no collapsed or NaN weight to the
\* selection or to its return.
C10_CollapseRecovered ==
    (ValidTracker /\ SS # <<>> /\ Collapsed(SS)) => pc \in {"neff", "resample"}

\* the allocations reachable through the slots of SS and of SS_resamp
SlotMems == {SS[k].mem : k \in 1..Len(SS)}
                \cup {SS_resamp[k].mem : k \in 1..Len(SS_resamp)}

\* C11: no two slots of SS and SS_resamp refer to the same particle storage:
\* every ensemble particle and every resampling-buffer particle owns its
\* target list, also after a resampling that took one source particle for
\* several slots, so a change of one particle's targets shows in no other.
C11_NoSharedTargetLists ==
    Cardinality(SlotMems) = Len(SS) + Len(SS_resamp)

\* C11 witness: a resampling has filled two slots of SS, and two of
\* SS_resamp, from one source particle that holds targets
C11_Witness ==
    /\ pc = "resampled"
    /\ \E i, j \in 1..tpars.Np :
        /\ i # j
        /\ s[i] = s[j]
        /\ SS[i].nTargets > 0
        /\ SS[i].M = SS[j].M
        /\ SS_resamp[i].M = SS[j].M

\* C12 (as claimed): on a validly configured tracker, the particles and the
\* tracker are never freed while a tracker3d_step call on the instance is in
\* progress: a destroy issued during a step waits for its return, or fails.
C12_DestroyWaitsForStep == ~(ValidTracker /\ pc \in InStep /\ pDataMem = "freed")

\* the outputs of an empty result
EmptyResult == nTargets = 0 /\ target_xyz = NULL /\ target_IDs = NULL

\* C13: a step that has returned after selecting a particle without targets
\* has published count 0 and NULL position and id outputs; a step made
\* before any observation was supplied fails no assert, selects such a
\* particle and returns this empty result.
C13_EmptyResultWithoutTargets ==
    /\ (Returned /\ SS[maxIdx + 1].nTargets = 0) => EmptyResult
    /\ (nCalls > 0 /\ nUpdates = 0) => failedAssert = "none"
    /\ (Returned /\ nUpdates = 0) => (SS[maxIdx + 1].nTargets = 0 /\ EmptyResult)

\* C13 witness: a step has returned the empty result after an earlier step
\* had published targets: the particle selected now holds none, others do
C13_Witness ==
    /\ Returned
    /\ nCalls = 2
    /\ nUpdates = 2
    /\ SS[maxIdx + 1].nTargets = 0
    /\ SS_call[FirstMaxParticle(SS_call)].nTargets > 0
    /\ EmptyResult

\* 1 <= r <= n for a float r (false for a NaN and for +inf)
InRange1To(r, n) == IsFinite(r) /\ r[1] >= r[2] /\ r[1] <= n * r[2]

\* C14 (as claimed): on a validly configured tracker that has not been
\* destroyed, every value that tracker3d_step computes for Neff lies in
\* [1, Np].
C14_NeffInRange ==
    [][(ValidTracker /\ pDataMem = "allocated" /\ EffParticles)
        => InRange1To(Neff', tpars.Np)]_vars

\* C15 (as claimed): the (re-)initialisation body of dirass_initCodec and the
\* main processing body of dirass_analysis never execute at the same time.
C15_InitExcludesProcessing == ~(InInitBody /\ InProcBody)

\* C16 (as claimed): when dirass_getPmap returns, it returns 1 if the map was
\* ready and it has assigned its output parameters, and 0 otherwise.
C16_GetPmapOneIffWritten ==
    ctlPc = "getPmap.ret" => (ret = IF outWritten THEN 1 ELSE 0)

\* C17 (as claimed): dirass_getUpscaleOrder returns the value of the most
\* recent dirass_setUpscaleOrder call, UPSCALE_ORDER_TENTH if there was none
\* (the setter keeps this value in new_upscaleOrder).
C17_GetUpscaleOrderReturnsSet ==
    ctlPc = "getUpscaleOrder.ret" => ret = new_upscaleOrder

\* C18: whenever the requested input order is not first order, the channel
\* ordering is not CH_FUMA and the normalisation is not NORM_FUMA.
C18_FumaOnlyFirstOrder ==
    new_inputOrder # INPUT_ORDER_FIRST => (chOrdering # CH_FUMA /\ norm # NORM_FUMA)

\* C18 witness: setter calls have requested a higher input order and a
\* normalisation other than the default
C18_Witness ==
    /\ new_inputOrder = INPUT_ORDER_SECOND
    /\ norm = NORM_N3D
    /\ chOrdering = CH_ACN

\* C19: no step taken after tracker3d_create changes the stored
\* configuration, A, Q, H, R or W0, so after any number of tracker3d_step
\* calls they are the values tracker3d_create computed: the configuration
\* passed in, the H and R built from it and W0 = 1/Np.
C19_ModelsConstant ==
    /\ [][pc # "start" => UNCHANGED <<tpars, R, A, Q, H, W0>>]_vars
    /\ [](nCalls > 0 =>
            /\ tpars = cfg
            /\ H = MeasModelH
            /\ R = MeasNoiseR(cfg.measNoiseSD_deg)
            /\ W0 = BaselineW0(cfg.Np))

\* C19 witness: two step calls have returned; they predicted, processed two
\* observations and resampled
C19_Witness ==
    /\ Returned
    /\ nCalls = 2
    /\ nUpdates = 2
    /\ s # <<>>
    /\ cfg = ValidConfig

\* what may come directly before entry b of events: a (the entry before it)
Follows(a, b) ==
    CASE b.kind \in {"predict", "update"} ->
            \/ a.kind = "predict" /\ a.ob = b.ob
            \/ a.kind \in {"neff", "resample"} /\ b.ob = a.ob + 1
      [] b.kind = "neff" -> a.kind = "update" /\ a.ob = b.ob
      [] b.kind = "resample" -> a.kind = "neff" /\ a.ob = b.ob

\* C20: within one tracker3d_step call the observations are handled in
\* batch order, each exactly once: what the call does starts with
\* observation 0; for every observation the prediction passes come first,
\* then one update, which is given that observation, directly followed by
\* the computation of Neff and, if decided, the resampling; only then the
\* next observation follows; and the call ends after the last observation.
C20_ObservationsInOrderOnce ==
    /\ \A k \in 1..Len(events) :
        /\ events[k].ob \in 0..(nObs - 1)
        /\ events[k].kind = "update" => events[k].z = newObs_xyz[events[k].ob + 1]
        /\ IF k = 1
           THEN events[k].ob = 0 /\ events[k].kind \in {"predict", "update"}
           ELSE Follows(events[k - 1], events[k])
    /\ (nCalls > 0 /\ pc \in {"select", "publish", "idle", "aborted"}) =>
        IF nObs = 0 THEN events = <<>>
        ELSE /\ events # <<>>
             /\ events[Len(events)].kind \in {"neff", "resample"}
             /\ events[Len(events)].ob = nObs - 1

\* C20 witness: a step has returned that was given two different
\* observations, predicted, and resampled after the second update
C20_Witness ==
    /\ Returned
    /\ nObs = 2
    /\ newObs_xyz[1] # newObs_xyz[2]
    /\ events[1].kind = "predict"
    /\ events[Len(events)] = Event("resample", 1, <<>>)

\* the prediction passes the running step has made for observation o
PredictsFor(o) ==
    Cardinality({e \in 1..Len(events) :
                    events[e].kind = "predict" /\ events[e].ob = o})

\* C21: the tick counter counts the step calls made since the last processed
\* observation.  When the update of the first observation of a batch is
\* due, after emptyRun consecutive empty-batch steps, exactly emptyRun + 1
\* prediction passes have been made for it and the counter holds
\* emptyRun + 1; the update of every further observation of the batch is
\* preceded by no prediction pass; the counter is 0 on return from a step
\* that had an observation and emptyRun + 1 on return from an empty one.
C21_PredictOncePerTick ==
    /\ (pc = "update" /\ ob = 0) =>
            (PredictsFor(0) = emptyRun + 1 /\ incrementTime = emptyRun + 1)
    /\ (pc = "update" /\ ob > 0) => (PredictsFor(ob) = 0 /\ incrementTime = 0)
    /\ Returned => incrementTime = (IF nObs > 0 THEN 0 ELSE emptyRun + 1)

\* C21 witness: the second observation of a batch is about to be updated
\* without a prediction pass, after the first one, which followed an
\* empty-batch step, had two
C21_Witness ==
    /\ pc = "update"
    /\ ob = 1
    /\ emptyRun = 1
    /\ PredictsFor(0) = 2
    /\ PredictsFor(1) = 0

\* the running step has resampled after the update of observation o
ResampledFor(o) ==
    \E e \in 1..Len(events) : events[e].kind = "resample" /\ events[e].ob = o

\* C22: the step that leaves the computation of Neff (the tracker being
\* intact) enters the resampling branch if and only if Neff < Np/4, and
\* otherwise goes on to the next observation; computing Neff changes no
\* particle, and the resampling buffer and the index vector of a created
\* tracker are written in the resampling branch only, so without resampling
\* the ensemble stays as the update left it.
C22_ResampleIffBelowQuarter ==
    [][/\ (pc = "neff" /\ pc' \notin {"neff", "crashed"}) =>
            /\ SS' = SS
            /\ (pc' = "resample") <=> RLess(Neff', Rat(tpars.Np, 4))
            /\ pc' # "resample" =>
                    (ob' = ob + 1 /\ pc' \in {"update", "select"})
       /\ (pc # "start" /\ (SS_resamp' # SS_resamp \/ s' # s)) => pc = "resample"
       /\ (pc = "resample" /\ pc' \notin {"resample", "crashed"}) =>
            (pc' = "resampled" /\ ResampledFor(ob)')]_vars

\* C22 witness: one step has processed two observations, the first without
\* resampling and the second with it
C22_Witness ==
    /\ pc = "select"
    /\ pDataMem = "allocated"
    /\ nObs = 2
    /\ ~ResampledFor(0)
    /\ ResampledFor(1)

\* the target list of a particle: count, identities, means and covariances
Targets(p) == <<p.nTargets, p.targetIDs, p.M, p.P>>

\* C23: the resampling branch leaves in every slot i the target list that
\* particle s[i] had when the branch was entered, whatever s is.
C23_ResampledFromOriginals ==
    [][(pc = "resample" /\ pc' = "resampled") =>
            \A i \in 1..tpars.Np : Targets(SS'[i]) = Targets(SS[s'[i] + 1])]_vars

\* C23 witness: a resampling has given slot i the particle of a lower slot
\* s[i] which the resampling has itself overwritten with other targets
C23_Witness ==
    /\ pc = "resampled"
    /\ pDataMem = "allocated"
    /\ \E i \in 1..tpars.Np :
        /\ s[i] + 1 < i
        /\ Targets(SS[i]) # Targets(SS[s[i] + 1])

\* C24 (as claimed): the step of dirass_destroy that frees the instance is
\* taken only while the audio thread is outside the processing body and the
\* control thread is outside the codec initialisation.
C24_DestroyFreesWhenQuiet ==
    [][(dirassMem = "allocated" /\ dirassMem' = "freed") =>
            (~InProcBody /\ ~InInitBody)]_vars

\* the audio thread computes an activity map, lines 278-417
InPmapBody == anaPc \in {"L278", "L414"}

\* a map is computed only on request: a computation starts only with
\* recalcPmap = 1 and clears it, and recalcPmap is set again only by a
\* control-thread call, which changes no other map field
PmapOnlyOnRequest ==
    [][/\ (~InPmapBody /\ InPmapBody') => (recalcPmap = 1 /\ recalcPmap' = 0)
       /\ (recalcPmap = 0 /\ recalcPmap' = 1) =>
            (ctlPc = "idle" /\ UNCHANGED <<pmapReady, dispSlotIdx, anaPc>>)]_vars

\* pmapReady is 0 while a map is computed
PmapNotReadyWhileComputed == InPmapBody => pmapReady = 0

\* the display slot index is a valid index of pmap_grid whenever a map is
\* computed into it and whenever a computed map is announced
SlotIdxInRange ==
    (InPmapBody \/ pmapReady = 1) => dispSlotIdx \in 0..(NUM_DISP_SLOTS - 1)

\* C25 (as claimed): maps are computed on request only, pmapReady is 0 during
\* a computation, and the display slot index is within 0..NUM_DISP_SLOTS-1
\* during every computation and after it.
C25_PmapOnRequestSlotInRange ==
    PmapOnlyOnRequest /\ [](PmapNotReadyWhileComputed /\ SlotIdxInRange)

\* C26: dirass_initCodec passes the test of line 168 only with the status
\* CODEC_STATUS_NOT_INITIALISED (with any other status the call returns at
\* once and changes nothing), and a call that has passed it eventually
\* returns with the status CODEC_STATUS_INITIALISED, whatever dirass_analysis
\* calls the audio thread makes meanwhile, provided the analysis calls
\* terminate (none faults) and the instance is not freed under the call.
C26_InitCodecCompletes ==
    /\ [][(ctlPc = "idle" /\ ctlPc' # "idle" /\ codecStatus # CODEC_STATUS_NOT_INITIALISED)
            => (ctlPc' \in {"L683", "getUpscaleOrder.ret"} /\ UNCHANGED statusVars)]_vars
    /\ (ctlPc = "L170") ~>
            \/ ctlPc = "idle" /\ codecStatus = CODEC_STATUS_INITIALISED
            \/ anaPc = "crashed"
            \/ dirassMem = "freed"

\* C26 witness: the call waits, with the codec marked for initialisation,
\* for a processing body that was entered before the call
C26_Witness ==
    /\ ctlPc = "L170"
    /\ codecStatus = CODEC_STATUS_INITIALISING
    /\ procStatus = PROC_STATUS_ONGOING
    /\ InProcBody
    /\ dirassMem = "allocated"

\* C27 (as claimed): on a validly configured tracker no output buffer that
\* a step allocated is left without a pointer to it and unfreed.
C27_NoOrphanedOutput == ValidTracker => leaked = 0

\* C28 (as claimed): on a validly configured tracker, once tracker3d_destroy
\* has freed the tracker the caller's handle is NULL, and the freed blocks
\* are never freed again.
C28_DestroyIdempotent ==
    ValidTracker =>
        /\ pDataMem = "freed" => hT3d = "NULL"
        /\ pDataMem # "freed twice"

\* C29 (as claimed): dirass_destroy called with the address of a NULL handle
\* reads no field through the handle and does not fault.
C29_NullHandleDestroyNoOp ==
    /\ [][~(hDir = "NULL" /\ DestroyDeref)]_vars
    /\ [](hDir = "NULL" => dstPc # "crashed")

====
